---- MODULE Spec2Model ----
(***************************************************************************)
(* Model of the Research DB API proxy (main.py): the three authenticated   *)
(* endpoints GET /studies, GET /studies_min and POST /studies, the auth    *)
(* dependency and the environment check, and what each handler submits     *)
(* to the PostgREST backend.                                               *)
(*                                                                         *)
(* Python values are encoded as follows.                                   *)
(*   Optional[T]       None is <<>>, a present value v is <<v>>            *)
(*   str (title,order) a sequence of one-character strings, so that        *)
(*                     `in`, split and lower act on characters             *)
(*   str (opaque)      a TLA+ string; "" is the empty Python string        *)
(*   JSON body values  [type |-> "str"|"int"|"null", val |-> string]       *)
(*   dict              a function whose DOMAIN is the set of keys present  *)
(***************************************************************************)
EXTENDS Integers, Sequences, FiniteSets, TLC

VARIABLES
    SUPABASE_URL,    \* os.getenv("SUPABASE_URL"), Optional[str]
    SUPABASE_KEY,    \* os.getenv("SUPABASE_ANON_KEY"), Optional[str]
    SERVER_API_KEY,  \* os.getenv("API_KEY"), Optional[str]
    pc,              \* "idle": waiting for a request; "done": a response was produced
    req,             \* the request being answered
    status,          \* HTTP status of the response (0 while idle)
    error,           \* which raise produced the response ("none" on success)
    clients,         \* number of create_client calls made for this request
    study,           \* upsert_study's local dict after the legacy mapping
    conflict_col,    \* upsert_study's local conflict_col, Optional[str]
    submitted        \* request descriptors executed on the backend, in order

vars == <<SUPABASE_URL, SUPABASE_KEY, SERVER_API_KEY, pc, req, status, error,
          clients, study, conflict_col, submitted>>

----------------------------------------------------------------------------
(* Bounds of the model *)

\* longest title filter value, in characters
MaxTitleLen == 2
\* largest number of '.'-separated segments after the field of an order string
MaxSegs == 2

----------------------------------------------------------------------------
(* Python values *)

None == <<>>
Some(v) == <<v>>

\* bool(x) for an Optional opaque string: None and "" are falsy
Truthy(x) == x # None /\ x[1] # ""

\* bool(x) for an Optional character-sequence string
TruthyChars(x) == x # None /\ x[1] # <<>>

JStr(s) == [type |-> "str", val |-> s]
JInt(s) == [type |-> "int", val |-> s]
JNull == [type |-> "null", val |-> ""]

\* bool(v) for a JSON value: None, "" and 0 are falsy
JTruthy(v) ==
    CASE v.type = "str" -> v.val # ""
      [] v.type = "int" -> v.val # "0"
      [] OTHER -> FALSE

\* dict.get(key): the value, or None when the key is absent
DictGet(d, k) == IF k \in DOMAIN d THEN d[k] ELSE JNull

EmptyDict == [k \in {} |-> JNull]

----------------------------------------------------------------------------
(* Character strings *)

Contains(s, c) == \E i \in 1..Len(s) : s[i] = c

\* index of the first occurrence of c in s at or after position from, else 0
FirstIndex(s, c, from) ==
    IF \E i \in from..Len(s) : s[i] = c
    THEN CHOOSE i \in from..Len(s) : s[i] = c /\ \A j \in from..(i - 1) : s[j] # c
    ELSE 0

UpperLetters == <<"A","B","C","D","E","F","G","H","I","J","K","L","M",
                  "N","O","P","Q","R","S","T","U","V","W","X","Y","Z">>
LowerLetters == <<"a","b","c","d","e","f","g","h","i","j","k","l","m",
                  "n","o","p","q","r","s","t","u","v","w","x","y","z">>

LowerChar(c) ==
    IF \E i \in 1..26 : UpperLetters[i] = c
    THEN LowerLetters[CHOOSE i \in 1..26 : UpperLetters[i] = c]
    ELSE c

\* str.lower()
Lower(s) == [i \in 1..Len(s) |-> LowerChar(s[i])]

RECURSIVE Split(_, _)
\* str.split(sep): cut at every occurrence of sep
Split(s, sep) ==
    LET i == FirstIndex(s, sep, 1)
    IN  IF i = 0 THEN <<s>>
        ELSE <<SubSeq(s, 1, i - 1)>> \o Split(SubSeq(s, i + 1, Len(s)), sep)

RECURSIVE Join(_, _)
\* sep.join(parts)
Join(parts, sep) ==
    IF Len(parts) = 0 THEN <<>>
    ELSE IF Len(parts) = 1 THEN parts[1]
    ELSE parts[1] \o <<sep>> \o Join(Tail(parts), sep)

S_year == <<"y","e","a","r">>
S_design == <<"d","e","s","i","g","n">>
S_study_design == <<"s","t","u","d","y","_","d","e","s","i","g","n">>
S_desc == <<"d","e","s","c">>
S_Desc == <<"D","e","s","c">>
S_asc == <<"a","s","c">>

----------------------------------------------------------------------------
(* list_studies and list_studies_min: filters and sort *)

ilike_pattern_always_wrap(title) == <<"%">> \o title \o <<"%">>

\* line 107
ilike_pattern(title) ==
    IF Contains(title, "%") \/ Contains(title, "_")
    THEN title
    ELSE <<"%">> \o title \o <<"%">>

Pred(op, column, value) == [op |-> op, column |-> column, value |-> value]

\* one `if ...: q = q.<op>(...)` of lines 100-120
FilterIf(cond, p) == IF cond THEN <<p>> ELSE <<>>

list_predicates_tags_first(r) ==
       FilterIf(Truthy(r.tag), Pred("cs", "tags", <<r.tag[1]>>))
    \o FilterIf(Truthy(r.outcome), Pred("cs", "outcomes", <<r.outcome[1]>>))
    \o FilterIf(Truthy(r.doi), Pred("eq", "doi", r.doi[1]))
    \o FilterIf(Truthy(r.pmid), Pred("eq", "pmid", r.pmid[1]))
    \o FilterIf(TruthyChars(r.title), Pred("ilike", "title", ilike_pattern(r.title[1])))
    \o FilterIf(r.year_gte # None, Pred("gte", "year", r.year_gte[1]))
    \o FilterIf(r.year_lte # None, Pred("lte", "year", r.year_lte[1]))

list_predicates_year_truthy(r) ==
       FilterIf(Truthy(r.doi), Pred("eq", "doi", r.doi[1]))
    \o FilterIf(Truthy(r.pmid), Pred("eq", "pmid", r.pmid[1]))
    \o FilterIf(TruthyChars(r.title), Pred("ilike", "title", ilike_pattern(r.title[1])))
    \o FilterIf(r.year_gte # None /\ r.year_gte # Some(0), Pred("gte", "year", r.year_gte[1]))
    \o FilterIf(r.year_lte # None /\ r.year_lte # Some(0), Pred("lte", "year", r.year_lte[1]))
    \o FilterIf(Truthy(r.tag), Pred("cs", "tags", <<r.tag[1]>>))
    \o FilterIf(Truthy(r.outcome), Pred("cs", "outcomes", <<r.outcome[1]>>))

\* lines 99-120: the filters applied to q, in the order they are applied
list_predicates(r) ==
       FilterIf(Truthy(r.doi), Pred("eq", "doi", r.doi[1]))
    \o FilterIf(Truthy(r.pmid), Pred("eq", "pmid", r.pmid[1]))
    \o FilterIf(TruthyChars(r.title), Pred("ilike", "title", ilike_pattern(r.title[1])))
    \o FilterIf(r.year_gte # None, Pred("gte", "year", r.year_gte[1]))
    \o FilterIf(r.year_lte # None, Pred("lte", "year", r.year_lte[1]))
    \o FilterIf(Truthy(r.tag), Pred("cs", "tags", <<r.tag[1]>>))
    \o FilterIf(Truthy(r.outcome), Pred("cs", "outcomes", <<r.outcome[1]>>))

parse_order_case_sensitive(order) ==
    LET parts == Split(order, ".")
    IN  [column |-> parts[1],
         desc |-> Len(parts) > 1 /\ parts[2] = S_desc,
         nullsfirst |-> FALSE]

\* lines 125-128 and 156-159: the arguments of q.order
parse_order(order) ==
    LET parts == Split(order, ".")
    IN  [column |-> parts[1],
         desc |-> Len(parts) > 1 /\ Lower(parts[2]) = S_desc,
         nullsfirst |-> FALSE]

\* `if order:` the sort of the query, None when q.order is not called
sort_of(order) == IF TruthyChars(order) THEN Some(parse_order(order[1])) ELSE None

Select(table, preds, sort, limit) ==
    [op |-> "select", table |-> table, predicates |-> preds, sort |-> sort,
     limit |-> limit]

----------------------------------------------------------------------------
(* auth and environment *)

auth_header_optional(x_api_key) ==
    ~(SERVER_API_KEY # None /\ x_api_key # None /\ x_api_key # SERVER_API_KEY)

\* lines 52-56: auth raises 401 exactly when this is FALSE
auth(x_api_key) ==
    ~(Truthy(SERVER_API_KEY) /\ x_api_key # SERVER_API_KEY)

\* the list `missing` of require_env; HTTP 500 is raised when it is not empty
require_env ==
    (IF ~Truthy(SUPABASE_URL) THEN <<"SUPABASE_URL">> ELSE <<>>)
    \o (IF ~Truthy(SUPABASE_KEY) THEN <<"SUPABASE_ANON_KEY">> ELSE <<>>)

----------------------------------------------------------------------------
(* upsert_study: legacy mapping and conflict column *)

apply_legacy_overwrite(s) ==
    IF "design" \in DOMAIN s
    THEN [k \in (DOMAIN s \ {"design"}) \cup {"study_design"} |->
             IF k = "study_design" THEN s["design"] ELSE s[k]]
    ELSE s

\* lines 189-190: study["study_design"] = study.pop("design")
apply_legacy(s) ==
    IF "design" \in DOMAIN s /\ "study_design" \notin DOMAIN s
    THEN [k \in (DOMAIN s \ {"design"}) \cup {"study_design"} |->
             IF k = "study_design" THEN s["design"] ELSE s[k]]
    ELSE s

\* lines 195-196: the local doi / pmid
identity_value(s, k) ==
    LET v == DictGet(s, k)
    IN  IF v.type = "str" THEN (IF JTruthy(v) THEN v ELSE JStr("")) ELSE v

auto_conflict_col_pmid_first(s) ==
    IF JTruthy(identity_value(s, "pmid")) THEN Some("pmid")
    ELSE IF JTruthy(identity_value(s, "doi")) THEN Some("doi")
    ELSE None

auto_conflict_col_no_check(s) ==
    IF JTruthy(identity_value(s, "doi")) THEN Some("doi") ELSE Some("pmid")

\* lines 197-202: doi first, then pmid; None stands for the raise of HTTP 400
auto_conflict_col(s) ==
    IF JTruthy(identity_value(s, "doi")) THEN Some("doi")
    ELSE IF JTruthy(identity_value(s, "pmid")) THEN Some("pmid")
    ELSE None

resolve_conflict_col_auto_wins(s, on_conflict) ==
    IF auto_conflict_col(s) # None THEN auto_conflict_col(s) ELSE on_conflict

\* lines 193-202
resolve_conflict_col(s, on_conflict) ==
    IF ~Truthy(on_conflict) THEN auto_conflict_col(s) ELSE on_conflict

----------------------------------------------------------------------------
(* Requests *)

Headers == {None, Some("secret"), Some("wrong")}
BackendOutcomes == {"ok", "api_error", "exception"}

IdentityValues == {JNull, JStr(""), JStr("10.1/x"), JInt("0"), JInt("7")}
DesignValues == {JNull, JStr("rct")}
StudyDesignValues == {JStr("cohort")}
StudyKeys == {"doi", "pmid", "design", "study_design"}

ValuesOf(k) ==
    CASE k = "doi" -> IdentityValues
      [] k = "pmid" -> IdentityValues
      [] k = "design" -> DesignValues
      [] OTHER -> StudyDesignValues

Studies ==
    UNION { { s \in [K -> IdentityValues \cup DesignValues \cup StudyDesignValues] :
                \A k \in K : s[k] \in ValuesOf(k) } : K \in SUBSET StudyKeys }

OnConflicts == {None, Some(""), Some("pmid"), Some("id")}

UpsertRequests ==
    [endpoint : {"POST /studies"}, x_api_key : Headers,
     study : Studies, on_conflict : OnConflicts]

TitleChars == {"m", "%", "_", "*"}
TitleStrings == UNION { [1..n -> TitleChars] : n \in 0..MaxTitleLen }

OrderFields == {S_year, S_design, <<>>}
DirTokens == {S_desc, S_Desc, S_asc, <<>>}
OrderStrings ==
    { Join(<<f>> \o segs, ".") :
        f \in OrderFields, segs \in UNION { [1..n -> DirTokens] : n \in 0..MaxSegs } }
Orders == {None} \cup { Some(s) : s \in OrderStrings }
Limits == {10, 200}

\* the filters vary jointly
FilterRequests ==
    [endpoint : {"GET /studies"}, x_api_key : Headers,
     doi : {None, Some(""), Some("10.1/x")},
     pmid : {None, Some("123")},
     title : {None, Some(<<"m">>)},
     year_gte : {None, Some(0), Some(2015)},
     year_lte : {None, Some(2010)},
     tag : {None, Some(""), Some("magnesium")},
     outcome : {None, Some("sleep")},
     order : {None, Some(Join(<<S_year, S_desc>>, "."))},
     limit : {10}]

\* every title up to MaxTitleLen characters, the other filters absent
TitleRequests ==
    [endpoint : {"GET /studies"}, x_api_key : Headers,
     doi : {None}, pmid : {None},
     title : {None} \cup { Some(s) : s \in TitleStrings },
     year_gte : {None}, year_lte : {None}, tag : {None}, outcome : {None},
     order : {None}, limit : {200}]

\* every order string, the filters absent
OrderRequests ==
    [endpoint : {"GET /studies"}, x_api_key : Headers,
     doi : {None}, pmid : {None}, title : {None},
     year_gte : {None}, year_lte : {None}, tag : {None}, outcome : {None},
     order : Orders, limit : Limits]

ListRequests == FilterRequests \cup TitleRequests \cup OrderRequests

MinRequests ==
    [endpoint : {"GET /studies_min"}, x_api_key : Headers,
     order : Orders, limit : Limits]

----------------------------------------------------------------------------
(* Responses *)

Respond(r, st, err, n, s, c, sub) ==
    /\ pc' = "done"
    /\ req' = r
    /\ status' = st
    /\ error' = err
    /\ clients' = n
    /\ study' = s
    /\ conflict_col' = c
    /\ submitted' = sub
    /\ UNCHANGED <<SUPABASE_URL, SUPABASE_KEY, SERVER_API_KEY>>

\* the try/except around execute(): 200, APIError -> 400, Exception -> 500
Execute(r, b, n, s, c, q) ==
    Respond(r,
            CASE b = "ok" -> 200 [] b = "api_error" -> 400 [] OTHER -> 500,
            CASE b = "ok" -> "none" [] b = "api_error" -> "backend" [] OTHER -> "exception",
            n, s, c, <<q>>)

upsert_study ==
    /\ pc = "idle"
    /\ \E r \in UpsertRequests, b \in BackendOutcomes :
        IF ~auth(r.x_api_key)
        THEN Respond(r, 401, "auth", 0, EmptyDict, None, <<>>)
        ELSE IF require_env # <<>>
        THEN Respond(r, 500, "env", 0, EmptyDict, None, <<>>)
        ELSE LET s == apply_legacy(r.study)
                 c == resolve_conflict_col(s, r.on_conflict)
             IN  IF c = None
                 THEN Respond(r, 400, "validation", 1, s, c, <<>>)
                 ELSE Execute(r, b, 1, s, c,
                              [op |-> "upsert", table |-> "studies", record |-> s,
                               on_conflict |-> c])

list_studies ==
    /\ pc = "idle"
    /\ \E r \in ListRequests, b \in BackendOutcomes :
        IF ~auth(r.x_api_key)
        THEN Respond(r, 401, "auth", 0, EmptyDict, None, <<>>)
        ELSE IF require_env # <<>>
        THEN Respond(r, 500, "env", 0, EmptyDict, None, <<>>)
        ELSE Execute(r, b, 1, EmptyDict, None,
                     Select("studies", list_predicates(r), sort_of(r.order), r.limit))

\* get_client is called twice (lines 150 and 154); the rpc builder is never executed
list_studies_min ==
    /\ pc = "idle"
    /\ \E r \in MinRequests, b \in BackendOutcomes :
        IF ~auth(r.x_api_key)
        THEN Respond(r, 401, "auth", 0, EmptyDict, None, <<>>)
        ELSE IF require_env # <<>>
        THEN Respond(r, 500, "env", 0, EmptyDict, None, <<>>)
        ELSE Execute(r, b, 2, EmptyDict, None,
                     Select("studies_min", <<>>, sort_of(r.order), r.limit))

----------------------------------------------------------------------------

NoRequest == [endpoint |-> "none"]

Init ==
    /\ SUPABASE_URL \in {None, Some("https://db")}
    /\ SUPABASE_KEY \in {None, Some("anon")}
    /\ SERVER_API_KEY \in {None, Some(""), Some("secret")}
    /\ pc = "idle"
    /\ req = NoRequest
    /\ status = 0
    /\ error = "none"
    /\ clients = 0
    /\ study = EmptyDict
    /\ conflict_col = None
    /\ submitted = <<>>

\* the server answers requests one after another; nothing of a request is kept
NextRequest ==
    /\ pc = "done"
    /\ pc' = "idle"
    /\ req' = NoRequest
    /\ status' = 0
    /\ error' = "none"
    /\ clients' = 0
    /\ study' = EmptyDict
    /\ conflict_col' = None
    /\ submitted' = <<>>
    /\ UNCHANGED <<SUPABASE_URL, SUPABASE_KEY, SERVER_API_KEY>>

Next == list_studies \/ list_studies_min \/ upsert_study \/ NextRequest

Spec == Init /\ [][Next]_vars

----------------------------------------------------------------------------
(* Properties *)

\* the handler body of the endpoint ran for the request being answered
Ran(endpoint) ==
    pc = "done" /\ req.endpoint = endpoint /\ error \notin {"auth", "env"}

RanUpsert == Ran("POST /studies")
RanList == Ran("GET /studies")
RanSelect == Ran("GET /studies") \/ Ran("GET /studies_min")

ReqDoi == DictGet(req.study, "doi")
ReqPmid == DictGet(req.study, "pmid")

\* C1: with no explicit on_conflict the conflict column is the first of doi,
\* pmid whose value in the record is truthy: doi whenever doi is non-empty,
\* pmid exactly when doi is absent or empty and pmid is non-empty.
C1_ConflictPriority ==
    (RanUpsert /\ ~Truthy(req.on_conflict)) =>
        /\ JTruthy(ReqDoi) => conflict_col = Some("doi")
        /\ (conflict_col = Some("pmid")) <=> (~JTruthy(ReqDoi) /\ JTruthy(ReqPmid))
        /\ submitted # <<>> => submitted[1].on_conflict = conflict_col

C1_Witness ==
    /\ RanUpsert /\ req.on_conflict = None
    /\ ReqDoi = JStr("10.1/x") /\ ReqPmid = JInt("7")
    /\ conflict_col = Some("doi")
    /\ submitted # <<>> /\ submitted[1].on_conflict = Some("doi")

NoIdentity ==
    /\ pc = "done" /\ req.endpoint = "POST /studies"
    /\ ~Truthy(req.on_conflict)
    /\ ~JTruthy(ReqDoi) /\ ~JTruthy(ReqPmid)

\* C2 as stated: every upsert request with no on_conflict and no non-empty doi
\* or pmid ends in the validation error, HTTP 400, with nothing submitted.
C2_AlwaysValidationError ==
    NoIdentity => (status = 400 /\ error = "validation" /\ submitted = <<>>)

\* C2 amended: such a request never submits the upsert; it ends in the
\* validation error (400) when it passes the API-key check and the environment
\* is configured, in 401 when the key check fails, and otherwise in 500.
C2_NoUpsertSubmitted ==
    NoIdentity =>
        /\ submitted = <<>>
        /\ status = (IF ~auth(req.x_api_key) THEN 401
                     ELSE IF require_env # <<>> THEN 500 ELSE 400)
        /\ (status = 400) <=> (error = "validation")

C2_Witness ==
    /\ NoIdentity /\ status = 400 /\ error = "validation"
    /\ clients = 1 /\ submitted = <<>>
    /\ ReqDoi = JStr("") /\ ReqPmid = JInt("0")

\* C3: a provided (non-empty) on_conflict is used unchanged as the conflict
\* column for every record, also one with neither doi nor pmid; no validation
\* error is raised and the identity fields are not consulted.
C3_ExplicitConflictColumn ==
    (pc = "done" /\ req.endpoint = "POST /studies" /\ Truthy(req.on_conflict)) =>
        /\ error # "validation"
        /\ RanUpsert =>
            /\ conflict_col = req.on_conflict
            /\ Len(submitted) = 1
            /\ submitted[1].on_conflict = req.on_conflict

C3_Witness ==
    /\ RanUpsert /\ req.on_conflict = Some("id")
    /\ "doi" \notin DOMAIN req.study /\ "pmid" \notin DOMAIN req.study
    /\ submitted # <<>> /\ submitted[1].on_conflict = Some("id")

\* the request tag=magnesium&year_gte=2015&order=year.desc&limit=10
Scenario ==
    /\ RanList
    /\ req.tag = Some("magnesium") /\ req.year_gte = Some(2015)
    /\ req.order = Some(Join(<<S_year, S_desc>>, ".")) /\ req.limit = 10
    /\ req.doi = None /\ req.pmid = None /\ req.title = None
    /\ req.year_lte = None /\ req.outcome = None

Kinds(preds) == [i \in 1..Len(preds) |-> <<preds[i].op, preds[i].column>>]

ScenarioSortLimit ==
    /\ submitted[1].sort = Some([column |-> S_year, desc |-> TRUE, nullsfirst |-> FALSE])
    /\ submitted[1].limit = 10

\* C4 as stated: the scenario request translates to the predicate list
\* [array-contains(tags, "magnesium"), gte(year, 2015)] in that order, sort
\* (year, desc) and limit 10.
C4_ScenarioTagsFirst ==
    Scenario =>
        /\ Kinds(submitted[1].predicates) = << <<"cs", "tags">>, <<"gte", "year">> >>
        /\ submitted[1].predicates[1].value = <<"magnesium">>
        /\ submitted[1].predicates[2].value = 2015
        /\ ScenarioSortLimit

\* the order in which list_studies declares its filters
DeclaredOrder ==
    << <<"eq", "doi">>, <<"eq", "pmid">>, <<"ilike", "title">>, <<"gte", "year">>,
       <<"lte", "year">>, <<"cs", "tags">>, <<"cs", "outcomes">> >>

Rank(kind) == CHOOSE i \in 1..Len(DeclaredOrder) : DeclaredOrder[i] = kind

\* C4 amended: the predicates follow the fixed order doi, pmid, title,
\* year_gte, year_lte, tag, outcome, and the scenario request translates to
\* [gte(year, 2015), array-contains(tags, "magnesium")] in that order, sort
\* (year, desc) and limit 10.
C4_DeclaredOrder ==
    RanList =>
        LET ks == Kinds(submitted[1].predicates)
        IN  /\ \A i \in 1..Len(ks) : \E n \in 1..Len(DeclaredOrder) : DeclaredOrder[n] = ks[i]
            /\ \A i, j \in 1..Len(ks) : i < j => Rank(ks[i]) < Rank(ks[j])
            /\ Scenario =>
                /\ ks = << <<"gte", "year">>, <<"cs", "tags">> >>
                /\ submitted[1].predicates[1].value = 2015
                /\ submitted[1].predicates[2].value = <<"magnesium">>
                /\ ScenarioSortLimit

C4_Witness ==
    /\ Scenario /\ status = 200
    /\ Len(submitted[1].predicates) = 2
    /\ submitted[1].predicates[1].op = "gte"
    /\ submitted[1].predicates[2].op = "cs"

\* number of predicates of the kind among those submitted
CountKind(kind) ==
    Cardinality({ i \in 1..Len(submitted[1].predicates) :
                    Kinds(submitted[1].predicates)[i] = kind })

B2N(b) == IF b THEN 1 ELSE 0

\* C5: each present parameter emits exactly one predicate and each absent or
\* empty one emits none, so the number of predicates is the number of present
\* parameters; no parameter set gives the empty list; year_gte and year_lte
\* are emitted independently of each other.
C5_OnePredicatePerParameter ==
    RanList =>
        /\ CountKind(<<"eq", "doi">>) = B2N(Truthy(req.doi))
        /\ CountKind(<<"eq", "pmid">>) = B2N(Truthy(req.pmid))
        /\ CountKind(<<"ilike", "title">>) = B2N(TruthyChars(req.title))
        /\ CountKind(<<"gte", "year">>) = B2N(req.year_gte # None)
        /\ CountKind(<<"lte", "year">>) = B2N(req.year_lte # None)
        /\ CountKind(<<"cs", "tags">>) = B2N(Truthy(req.tag))
        /\ CountKind(<<"cs", "outcomes">>) = B2N(Truthy(req.outcome))
        /\ Len(submitted[1].predicates) =
              B2N(Truthy(req.doi)) + B2N(Truthy(req.pmid)) + B2N(TruthyChars(req.title))
              + B2N(req.year_gte # None) + B2N(req.year_lte # None)
              + B2N(Truthy(req.tag)) + B2N(Truthy(req.outcome))
        /\ \A i \in 1..Len(submitted[1].predicates) :
              LET p == submitted[1].predicates[i]
              IN  /\ p.op = "gte" => p.value = req.year_gte[1]
                  /\ p.op = "lte" => p.value = req.year_lte[1]

C5_Witness ==
    /\ RanList
    /\ req.year_gte = Some(0) /\ req.year_lte = Some(2010)
    /\ req.doi = Some("") /\ req.tag = Some("") /\ req.pmid = Some("123")
    /\ req.title = None /\ req.outcome = None
    /\ Len(submitted[1].predicates) = 3

C5_WitnessEmpty ==
    /\ RanList
    /\ req.doi = None /\ req.pmid = None /\ req.title = None /\ req.year_gte = None
    /\ req.year_lte = None /\ req.tag = None /\ req.outcome = None
    /\ submitted[1].predicates = <<>>

HasMarker(s) == \E i \in 1..Len(s) : s[i] \in {"%", "_"}

\* the pattern of the title predicate submitted is v
TitlePatternIs(v) ==
    \E i \in 1..Len(submitted[1].predicates) :
        /\ submitted[1].predicates[i].op = "ilike"
        /\ submitted[1].predicates[i].value = v

\* C6 as stated: a non-empty title without % or _ is emitted as *title*, a
\* title with a marker unchanged.
C6_StarWrapped ==
    (RanList /\ TruthyChars(req.title)) =>
        TitlePatternIs(IF HasMarker(req.title[1]) THEN req.title[1]
                       ELSE <<"*">> \o req.title[1] \o <<"*">>)

\* C6 amended: a non-empty title without % or _ is emitted as %title%
\* (wrapped in the SQL wildcard %, not *), a title with a marker unchanged.
C6_PercentWrapped ==
    (RanList /\ TruthyChars(req.title)) =>
        TitlePatternIs(IF HasMarker(req.title[1]) THEN req.title[1]
                       ELSE <<"%">> \o req.title[1] \o <<"%">>)

C6_Witness ==
    /\ RanList /\ req.title = Some(<<"m", "*">>)
    /\ TitlePatternIs(<<"%", "m", "*", "%">>)

C6_WitnessMarker ==
    /\ RanList /\ req.title = Some(<<"m", "%">>)
    /\ TitlePatternIs(<<"m", "%">>)

\* the part of s before its first '.', all of s when it has none
BeforeFirstDot(s) ==
    IF FirstIndex(s, ".", 1) = 0 THEN s ELSE SubSeq(s, 1, FirstIndex(s, ".", 1) - 1)

\* everything after the first '.' of s; <<>> when there is none
AfterFirstDot(s) ==
    IF FirstIndex(s, ".", 1) = 0 THEN <<>>
    ELSE SubSeq(s, FirstIndex(s, ".", 1) + 1, Len(s))

HasDot(s) == FirstIndex(s, ".", 1) # 0

\* C7 as stated: the order string is split on its first '.' only; the sort is
\* descending exactly when everything after the first '.' is 'desc' in any
\* case; an absent or empty order emits no sort.
C7_SplitOnFirstDotOnly ==
    RanSelect =>
        IF TruthyChars(req.order)
        THEN /\ submitted[1].sort # None
             /\ submitted[1].sort[1].column = BeforeFirstDot(req.order[1])
             /\ submitted[1].sort[1].desc <=>
                  (HasDot(req.order[1]) /\ Lower(AfterFirstDot(req.order[1])) = S_desc)
        ELSE submitted[1].sort = None

\* C7 amended: the order string is split on every '.'; the sort field is the
\* part before the first '.', the direction token is the part between the
\* first and the second '.' (up to the end when there is no second one), and
\* the sort is descending exactly when that token is 'desc' in any case, so
\* 'year.desc.asc' sorts descending; an absent or empty order emits no sort.
C7_SecondSegmentDecides ==
    RanSelect =>
        IF TruthyChars(req.order)
        THEN /\ submitted[1].sort # None
             /\ submitted[1].sort[1].column = BeforeFirstDot(req.order[1])
             /\ submitted[1].sort[1].desc <=>
                  (/\ HasDot(req.order[1])
                   /\ Lower(BeforeFirstDot(AfterFirstDot(req.order[1]))) = S_desc)
        ELSE submitted[1].sort = None

C7_Witness ==
    /\ Ran("GET /studies_min")
    /\ req.order = Some(Join(<<S_year, S_Desc, S_asc>>, "."))
    /\ submitted[1].sort = Some([column |-> S_year, desc |-> TRUE, nullsfirst |-> FALSE])

C7_WitnessNoSort ==
    /\ RanList /\ req.order = Some(<<>>) /\ submitted[1].sort = None

\* C8: the sort field is rewritten through the legacy alias table: an order
\* string whose field part is design sorts on study_design, never on design.
C8_SortFieldAliased ==
    (RanList /\ TruthyChars(req.order) /\ BeforeFirstDot(req.order[1]) = S_design) =>
        /\ submitted[1].sort # None
        /\ submitted[1].sort[1].column = S_study_design

\* C9: the legacy mapping moves design to study_design only when the record
\* has design and no study_design, leaves every other record unchanged, and
\* applying it again changes nothing.
C9_LegacyMapping ==
    RanUpsert =>
        /\ IF "design" \in DOMAIN req.study /\ "study_design" \notin DOMAIN req.study
           THEN /\ DOMAIN study = (DOMAIN req.study \ {"design"}) \cup {"study_design"}
                /\ study["study_design"] = req.study["design"]
                /\ \A k \in DOMAIN req.study \ {"design"} : study[k] = req.study[k]
           ELSE study = req.study
        /\ apply_legacy(study) = study
        /\ submitted # <<>> => submitted[1].record = study

C9_Witness ==
    /\ RanUpsert
    /\ DOMAIN req.study = {"doi", "design"} /\ req.study["design"] = JStr("rct")
    /\ DOMAIN study = {"doi", "study_design"} /\ study["study_design"] = JStr("rct")
    /\ submitted # <<>> /\ submitted[1].record = study

C9_WitnessKept ==
    /\ RanUpsert
    /\ DOMAIN req.study = {"doi", "design", "study_design"}
    /\ study = req.study /\ submitted # <<>>

\* C10: with a server API key configured, a request to any of the three
\* endpoints whose X-API-Key is missing or different gets 401 before the
\* handler body runs: no client is created, nothing is submitted; with no
\* server key configured every request is admitted.
C10_AuthBeforeHandler ==
    pc = "done" =>
        /\ req.endpoint \in {"GET /studies", "GET /studies_min", "POST /studies"}
        /\ IF Truthy(SERVER_API_KEY) /\ req.x_api_key # SERVER_API_KEY
           THEN status = 401 /\ error = "auth" /\ clients = 0 /\ submitted = <<>>
           ELSE status # 401 /\ error # "auth"

C10_Witness ==
    /\ pc = "done" /\ req.endpoint = "POST /studies"
    /\ SERVER_API_KEY = Some("secret") /\ req.x_api_key = None
    /\ require_env = <<>> /\ JTruthy(ReqDoi)
    /\ status = 401 /\ clients = 0 /\ submitted = <<>>

C10_WitnessOpen ==
    /\ pc = "done" /\ req.endpoint = "GET /studies"
    /\ SERVER_API_KEY = Some("") /\ req.x_api_key = Some("wrong")
    /\ status = 200 /\ submitted # <<>>
====
